---- MODULE Spec2Model ----
(***************************************************************************)
(* Model of flapjack-icinga2: the Icinga 2 event-stream client             *)
(* (api_client.go: ApiClient.Connect / processResponse / Cancel) and the   *)
(* prototype supervisor loop (main, with its own worker goroutine).        *)
(* The two files are two separate programs (package main and package       *)
(* flapjack_icinga2; main never calls Connect), so a behaviour runs one of *)
(* them: either Connect is called or main is started.                      *)
(***************************************************************************)
EXTENDS Integers, Sequences, FiniteSets, TLC

\* ------------------------------------------------------------- bounds
MaxRequests == 2      \* stream requests one Connect worker may issue
MaxStream == 2        \* values that may arrive on one stream response
MaxStateCode == 4     \* check_result.state ranges over 0..MaxStateCode
MaxSpawn == 3         \* worker goroutines main's loop may start

\* ------------------------------------------------------------- data
\* A decoded stream value (data, m).  json is what Decode makes of the bytes:
\* "object" (a JSON object), "array" (valid JSON, not an object), "syntax"
\* (Decode fails).  has is the set of keys present; wrongType the keys
\* present with a value of another JSON type than the code asserts.
\* timestamp is a float64, kept in tenths of a second.
Fields == {"host", "service", "timestamp", "check_result", "state", "output"}

Required == Fields \ {"service"}

Raw(j, t, hs, wt, st, ts) ==
    [json |-> j, type |-> t, has |-> hs, wrongType |-> wt, host |-> "h1",
     service |-> "s1", timestamp |-> ts, state |-> st, output |-> "disk full"]

NoData == [json |-> "none"]

WellTyped ==
    { Raw("object", t, hs, {}, st, 10000) :
        t \in {"CheckResult", "StateChange"}, hs \in {Fields, Required},
        st \in 0..MaxStateCode }
    \cup { Raw("object", "CheckResult", Fields, {}, 2, 10005) }

Malformed ==
    { Raw("object", "CheckResult", hs \ {f}, {}, 1, 10000) :
        hs \in {Fields, Required}, f \in Required }
    \cup { Raw("object", "StateChange", Fields, {f}, 1, 10000) : f \in Fields }
    \cup { Raw("object", "CommentAdded", Fields, {}, 1, 10000),
           Raw("array", "CheckResult", Fields, {}, 1, 10000),
           Raw("syntax", "CheckResult", Fields, {}, 1, 10000) }

RawValues == WellTyped \cup Malformed

\* m[k] is present (the comma-ok form, line 186)
Has(m, k) == k \in m.has

\* the type assertion m[k].(T) succeeds (it panics otherwise)
IsType(m, k) == k \in m.has /\ k \notin m.wrongType

\* variant of StateName whose default case yields "unknown"
StateNameDefaulted(code) ==
    CASE code = 0 -> "ok"
      [] code = 1 -> "warning"
      [] code = 2 -> "critical"
      [] OTHER -> "unknown"

\* switch check_result["state"].(float64), lines 162-174; "" is the default
StateName(code) ==
    CASE code = 0 -> "ok"
      [] code = 1 -> "warning"
      [] code = 2 -> "critical"
      [] code = 3 -> "unknown"
      [] OTHER -> ""

\* fmt.Sprintf("%s", m["host"]) of line 189: no panic on a missing host
SprintfHost(m) ==
    IF IsType(m, "host") THEN m.host
    ELSE IF Has(m, "host") THEN "%!s(float64=1)" ELSE "%!s(<nil>)"

\* Lines 150-194: from the decoded value to the lookup that is to be made.
\* outcome "panic": a failed type assertion; "error": an error is returned;
\* "lookup": state, service, serviceType and name are set.
NoLookup == [state |-> "", service |-> "", serviceType |-> "", name |-> "",
             varURL |-> ""]

\* fmt.Sprintf("https://%s/v1/objects/%s/%s", server, serviceType, name), line
\* 196, without the scheme and server
varURL(serviceType, name) == "/v1/objects/" \o serviceType \o "/" \o name

Verdict(o, e, l) == [outcome |-> o, err |-> e, look |-> l]

\* variant of lookupFor that ignores the service key
lookupForHostOnly(m, state) ==
    [state |-> state, service |-> "HOST", serviceType |-> "hosts",
     name |-> m.host, varURL |-> varURL("hosts", m.host)]

\* Lines 181-196: the lookup for m, on the presence of the service key
lookupFor(m, state) ==
    IF Has(m, "service")
    THEN [state |-> state, service |-> m.service, serviceType |-> "services",
          name |-> SprintfHost(m) \o "!" \o m.service,
          varURL |-> varURL("services", SprintfHost(m) \o "!" \o m.service)]
    ELSE [state |-> state, service |-> "HOST", serviceType |-> "hosts",
          name |-> m.host, varURL |-> varURL("hosts", m.host)]

\* variant of classify whose switch has no default case: a value of any type
\* is handled as a check result
classifyAnyType(m) ==
    IF m.json # "object" THEN Verdict("panic", "", NoLookup)
    ELSE IF ~IsType(m, "check_result") THEN Verdict("panic", "", NoLookup)
    ELSE IF ~IsType(m, "timestamp") THEN Verdict("panic", "", NoLookup)
    ELSE IF ~IsType(m, "state") THEN Verdict("panic", "", NoLookup)
    ELSE IF StateName(m.state) = ""
         THEN Verdict("error", "Unknown state", NoLookup)
    ELSE IF Has(m, "service") /\ ~IsType(m, "service")
         THEN Verdict("panic", "", NoLookup)
    ELSE IF ~Has(m, "service") /\ ~IsType(m, "host")
         THEN Verdict("panic", "", NoLookup)
    ELSE Verdict("lookup", "", lookupFor(m, StateName(m.state)))

classify(m) ==
    IF m.json # "object" THEN Verdict("panic", "", NoLookup)
    ELSE IF m.type \notin {"CheckResult", "StateChange"}
         THEN Verdict("error", "Unknown type", NoLookup)
    ELSE IF ~IsType(m, "check_result") THEN Verdict("panic", "", NoLookup)
    ELSE IF ~IsType(m, "timestamp") THEN Verdict("panic", "", NoLookup)
    ELSE IF ~IsType(m, "state") THEN Verdict("panic", "", NoLookup)
    ELSE IF StateName(m.state) = ""
         THEN Verdict("error", "Unknown state", NoLookup)
    ELSE IF Has(m, "service") /\ ~IsType(m, "service")
         THEN Verdict("panic", "", NoLookup)
    ELSE IF ~Has(m, "service") /\ ~IsType(m, "host")
         THEN Verdict("panic", "", NoLookup)
    ELSE Verdict("lookup", "", lookupFor(m, StateName(m.state)))


\* A lookup response (GET /v1/objects/<serviceType>/<name>).  failed: the
\* request itself failed, client.Do returns (nil, err).  results is "absent"
\* (no such key, as in Icinga's error envelope), "empty" or "one".
Envelope(j, r, a, v, ht, tg) ==
    [json |-> j, results |-> r, attrs |-> a, vars |-> v, hasTags |-> ht,
     tags |-> tg]

LookupBodies ==
    { Envelope("object", "one", TRUE, TRUE, FALSE, <<>>),
      Envelope("object", "one", TRUE, TRUE, TRUE, <<"prod">>),
      Envelope("object", "one", TRUE, TRUE, TRUE, <<>>),
      Envelope("object", "one", TRUE, FALSE, FALSE, <<>>),
      Envelope("object", "one", FALSE, FALSE, FALSE, <<>>),
      Envelope("object", "empty", FALSE, FALSE, FALSE, <<>>),
      Envelope("object", "absent", FALSE, FALSE, FALSE, <<>>),
      Envelope("array", "absent", FALSE, FALSE, FALSE, <<>>),
      Envelope("syntax", "absent", FALSE, FALSE, FALSE, <<>>) }

\* what Icinga sends with a status other than 200: its error envelope, which
\* has no results key, or a body that is not JSON
ErrorBodies ==
    { Envelope("object", "absent", FALSE, FALSE, FALSE, <<>>),
      Envelope("syntax", "absent", FALSE, FALSE, FALSE, <<>>) }

LookupResponses ==
    { [failed |-> TRUE, status |-> 0,
       body |-> Envelope("syntax", "absent", FALSE, FALSE, FALSE, <<>>)] }
    \cup { [failed |-> FALSE, status |-> 200, body |-> b] : b \in LookupBodies }
    \cup { [failed |-> FALSE, status |-> 404, body |-> b] : b \in ErrorBodies }

\* Lines 201-217: what the code makes of the lookup response.  The status is
\* never read.  A nil resp (failed request) is dereferenced at line 202.  JSON
\* decoded into interface{} yields []interface{}, so val.([]string) of line
\* 216 fails whenever the tags key is present.
Extracted(o, tg) == [outcome |-> o, tags |-> tg]

\* val.([]string), line 216: encoding/json never stores a []string in an
\* interface{} (arrays become []interface{}, null becomes nil)
IsStringSlice(val) == FALSE

extract(r) ==
    IF r.failed THEN Extracted("panic", <<>>)
    ELSE IF r.body.json = "syntax" THEN Extracted("error", <<>>)
    ELSE IF r.body.json # "object" THEN Extracted("panic", <<>>)
    ELSE IF r.body.results # "one" THEN Extracted("panic", <<>>)
    ELSE IF ~r.body.attrs THEN Extracted("panic", <<>>)
    ELSE IF ~r.body.vars THEN Extracted("panic", <<>>)
    ELSE IF r.body.hasTags
         THEN IF IsStringSlice(r.body.tags) THEN Extracted("ok", r.body.tags)
              ELSE Extracted("panic", <<>>)
    ELSE Extracted("ok", <<>>)

\* fmt.Sprintf("%s", tags) of a []string: [a b c]
RECURSIVE JoinTags(_)
JoinTags(tg) ==
    IF tg = <<>> THEN ""
    ELSE IF Len(tg) = 1 THEN Head(tg)
    ELSE Head(tg) \o " " \o JoinTags(Tail(tg))

\* int64(timestamp): the float64 is truncated to whole seconds
Int64(ts) == ts \div 10

\* Lines 219-228.  m["host"].(string) and check_result["output"].(string)
\* panic when the field is missing or not a string.
NoEvent == [Entity |-> "", Check |-> "", Type |-> "", Time |-> 0, State |-> "",
            Summary |-> "", Details |-> "", Tags |-> <<>>]

buildEvent(m, look, tg) ==
    IF ~IsType(m, "host") \/ ~IsType(m, "output")
    THEN [outcome |-> "panic", event |-> NoEvent]
    ELSE [outcome |-> "ok",
          event |-> [Entity |-> m.host, Check |-> look.service,
                     Type |-> "service", Time |-> Int64(m.timestamp),
                     State |-> look.state, Summary |-> m.output,
                     Details |-> "tags: [" \o JoinTags(tg) \o "]",
                     Tags |-> tg]]


\* ------------------------------------------------------------- state
VARIABLES
    pc,         \* position of the goroutine started by Connect
    acHttp,     \* ac.http: the transport Cancel acts on
    acRequest,  \* ac.request
    done,       \* Connect's local done
    err,        \* the error being returned ("" is nil)
    finished,   \* the errors sent on the finished channel
    requests,   \* stream requests issued, client.Do(req) of line 103
    conn,       \* the stream request/response of the current client.Do(req)
    arrived,    \* values that arrived on the current stream response
    pending,    \* of these, the values not yet read
    resp,       \* processResponse's variable resp: the body the defer closes
    decoder,    \* processResponse's variable decoder: the body it reads
    idx,        \* values read from the current stream response
    m,          \* the stream value being processed
    look,       \* state, service, serviceType, name of lines 162-194
    lookups,    \* lookup requests issued for the current stream response
    event,      \* the flapjack.Event built at lines 219-228
    sent,       \* events sent to redis in the current session, with idx
    closed,     \* the response bodies closed in the current session
    lastLookup, \* the last lookup response received
    cancelled,  \* Cancel has been called
    panicking,  \* a panic is unwinding processResponse
    supPc,      \* main: position of the supervisor loop
    sigs,       \* main: signals buffered in sigs (capacity 1)
    c,          \* main: the channel c (capacity 1)
    wpc,        \* main: position of each worker goroutine
    hErr,       \* main: each worker's h_err ("" is nil)
    spawned,    \* main: worker goroutines started
    mainReqs,   \* main: requests issued by the workers
    reqState,   \* main: the request req on transport tr
    mainSent,   \* main: events sent to the redis transport
    redisOpen,  \* main: the redis transport is open
    sentAfterClose, \* main: a Send ran after transport.Close()
    exitCode,   \* main: the process exit status, -1 while running
    fatal       \* main: the message printed before os.Exit(1), "" if none

clientVars == <<pc, acHttp, acRequest, done, err, finished, requests, conn,
                arrived, pending, resp, decoder, idx, m, look, lookups, event,
                sent, closed, lastLookup, cancelled, panicking>>

mainVars == <<supPc, sigs, c, wpc, hErr, spawned, mainReqs, reqState, mainSent,
              redisOpen, sentAfterClose, exitCode, fatal>>

vars == <<clientVars, mainVars>>

NoResponse == [failed |-> FALSE, status |-> 0,
               body |-> Envelope("none", "absent", FALSE, FALSE, FALSE, <<>>)]

Init ==
    /\ pc = "idle" /\ acHttp = "nil" /\ acRequest = "nil" /\ done = FALSE
    /\ err = "" /\ finished = <<>> /\ requests = 0 /\ conn = "none"
    /\ arrived = 0 /\ pending = 0 /\ resp = "nil" /\ decoder = "nil"
    /\ idx = 0 /\ m = NoData /\ look = NoLookup /\ lookups = 0
    /\ event = NoEvent /\ sent = <<>> /\ closed = {}
    /\ lastLookup = NoResponse /\ cancelled = FALSE /\ panicking = FALSE
    /\ supPc = "idle" /\ sigs = 0 /\ c = <<>>
    /\ wpc = [w \in 1..MaxSpawn |-> "none"]
    /\ hErr = [w \in 1..MaxSpawn |-> ""] /\ spawned = 0 /\ mainReqs = 0
    /\ reqState = "none" /\ mainSent = 0 /\ redisOpen = FALSE
    /\ sentAfterClose = FALSE /\ exitCode = -1 /\ fatal = ""


\* ------------------------------------------------ ApiClient (api_client.go)
\* Connect, lines 84-99, up to the start of the goroutine: NewHttpClient
\* stores the stream's transport in ac.http, and ac.request is the stream
\* request.
Connect ==
    /\ pc = "idle" /\ supPc = "idle"
    /\ acHttp' = "stream"
    /\ acRequest' = "stream"
    /\ done' = FALSE
    /\ pc' = "do"
    /\ UNCHANGED <<err, finished, requests, conn, arrived, pending, resp,
                   decoder, idx, m, look, lookups, event, sent, closed,
                   lastLookup, cancelled, panicking, mainVars>>

\* Cancel, lines 26-28: ac.http.CancelRequest(ac.request).  Only the transport
\* that carries the request aborts it, and only while it is in flight.  Cancel
\* runs on the caller's goroutine and reads ac.http without synchronisation
\* while the worker overwrites it (line 73): once a lookup has replaced it the
\* read may see either transport.
VisibleHttp == IF acHttp = "lookup" THEN {"stream", "lookup"} ELSE {acHttp}

CancelHits(tr) == tr = "stream" /\ acRequest = "stream"
                  /\ conn \in {"inflight", "open"}

Cancel ==
    /\ pc \notin {"idle", "crashed"}
    /\ ~cancelled
    /\ cancelled' = TRUE
    /\ \E tr \in VisibleHttp :
         IF CancelHits(tr)
         THEN conn' = "aborted" /\ pending' = 0
         ELSE UNCHANGED <<conn, pending>>
    /\ UNCHANGED <<pc, acHttp, acRequest, done, err, finished, requests,
                   arrived, resp, decoder, idx, m, look, lookups, event, sent,
                   closed, lastLookup, panicking, mainVars>>

\* for done == false { resp, err := client.Do(req) ...: the request goes out
DoRequest ==
    /\ pc = "do" /\ ~done
    /\ requests < MaxRequests
    /\ requests' = requests + 1
    /\ conn' = "inflight"
    /\ arrived' = 0 /\ pending' = 0 /\ idx' = 0 /\ lookups' = 0
    /\ closed' = {}
    /\ resp' = "nil" /\ decoder' = "nil"
    /\ pc' = "await"
    /\ UNCHANGED <<acHttp, acRequest, done, err, finished, m, look, event,
                   sent, lastLookup, cancelled, panicking, mainVars>>

\* Lines 103-119: client.Do returns.  A cancelled or failed request gives an
\* error, a status other than 200 an error made of status and body (the body
\* is closed by the deferred call when the goroutine returns), and 200 enters
\* processResponse.
DoResponse ==
    /\ pc = "await"
    /\ \E outcome \in {"error", "status", "ok"} :
         /\ conn = "aborted" => outcome = "error"
         /\ CASE outcome = "error" ->
                   /\ err' = IF conn = "aborted" THEN "request canceled"
                             ELSE "connect error"
                   /\ conn' = "none" /\ pc' = "report"
                   /\ UNCHANGED <<resp, decoder>>
              [] outcome = "status" ->
                   /\ err' = "API HTTP request failed"
                   /\ conn' = "rejected" /\ pc' = "report"
                   /\ resp' = "stream" /\ UNCHANGED decoder
              [] outcome = "ok" ->
                   /\ err' = ""
                   /\ conn' = "open" /\ pc' = "more"
                   /\ resp' = "stream" /\ decoder' = "stream"
    /\ UNCHANGED <<acHttp, acRequest, done, finished, requests, arrived,
                   pending, idx, m, look, lookups, event, sent, closed,
                   lastLookup, cancelled, panicking, mainVars>>

\* The peer writes one more value on the open stream.
StreamArrive ==
    /\ conn = "open" /\ arrived < MaxStream
    /\ arrived' = arrived + 1
    /\ pending' = pending + 1
    /\ UNCHANGED <<pc, acHttp, acRequest, done, err, finished, requests, conn,
                   resp, decoder, idx, m, look, lookups, event, sent, closed,
                   lastLookup, cancelled, panicking, mainVars>>

\* The peer closes the stream (what was written can still be read).
PeerClose ==
    /\ conn = "open"
    /\ conn' = "eof"
    /\ UNCHANGED <<pc, acHttp, acRequest, done, err, finished, requests,
                   arrived, pending, resp, decoder, idx, m, look, lookups,
                   event, sent, closed, lastLookup, cancelled, panicking, mainVars>>

\* The connection breaks: reads of the stream body fail from now on.
StreamBreak ==
    /\ conn = "open"
    /\ conn' = "broken" /\ pending' = 0
    /\ UNCHANGED <<pc, acHttp, acRequest, done, err, finished, requests,
                   arrived, resp, decoder, idx, m, look, lookups, event, sent,
                   closed, lastLookup, cancelled, panicking, mainVars>>

\* return from processResponse with error e ("" is nil), or a run-time panic
\* in it: the deferred function of lines 131-136 runs next.
ReturnFrom(e) ==
    /\ err' = e
    /\ panicking' = FALSE
    /\ pc' = "defer"

PanicFrom ==
    /\ err' = err
    /\ panicking' = TRUE
    /\ pc' = "defer"

\* Connect, lines 111-125, once processResponse has returned e: a non-nil
\* error is reported, nil goes round the loop to client.Do(req).
\* variant of AfterReturn that ends the worker on a nil return as well
AfterReturnStops(e) == "report"

AfterReturn(e) == IF e = "" THEN "do" ELSE "report"

\* Lines 131-136: io.Copy(ioutil.Discard, resp.Body); resp.Body.Close(), on
\* whatever resp is by now.  Draining the stream body lasts until the stream
\* ends.  A nil resp (failed lookup request) panics here as well; a panic
\* ends the process, since nothing recovers.
DrainBlocks == resp = "stream" /\ conn = "open"

Deferred ==
    /\ pc = "defer"
    /\ ~DrainBlocks
    /\ closed' = IF resp = "nil" THEN closed ELSE closed \cup {resp}
    /\ pending' = IF resp = "stream" THEN 0 ELSE pending
    /\ pc' = IF panicking \/ resp = "nil" THEN "crashed" ELSE AfterReturn(err)
    /\ m' = NoData /\ look' = NoLookup /\ event' = NoEvent
    /\ lastLookup' = NoResponse
    /\ UNCHANGED <<acHttp, acRequest, done, err, finished, requests, conn,
                   arrived, resp, decoder, idx, lookups, sent, cancelled,
                   panicking, mainVars>>

\* decoder.More() of line 140.  On the stream body: true when a value is
\* there, false at end of stream and also on a read error (More reports no
\* error); it blocks while the stream is open and empty.  On the lookup body,
\* which holds one JSON value that has been decoded: false.
MoreBlocks == decoder = "stream" /\ pending = 0 /\ conn = "open"

More == decoder = "stream" /\ pending > 0

\* Lines 140-150: the loop condition and decoder.Decode(&data).
ReadValue ==
    /\ pc = "more"
    /\ ~MoreBlocks
    /\ IF More
       THEN \E v \in RawValues :
              /\ pending' = pending - 1
              /\ idx' = idx + 1
              /\ IF v.json = "syntax"
                 THEN ReturnFrom("decode error") /\ m' = m
                 ELSE /\ m' = v /\ pc' = "classify"
                      /\ UNCHANGED <<err, panicking>>
       ELSE /\ ReturnFrom("")
            /\ UNCHANGED <<pending, idx, m>>
    /\ UNCHANGED <<look, event>>
    /\ UNCHANGED <<acHttp, acRequest, done, finished, requests, conn, arrived,
                   resp, decoder, lookups, sent, closed, lastLookup, cancelled,
                   mainVars>>

\* Lines 150-199: the type switch, the state table, the choice of the lookup,
\* then NewHttpClient (which overwrites ac.http) and the lookup request.
Classify ==
    /\ pc = "classify"
    /\ LET v == classify(m) IN
         CASE v.outcome = "panic" ->
                /\ PanicFrom
                /\ UNCHANGED <<acHttp, lookups, look>>
           [] v.outcome = "error" ->
                /\ ReturnFrom(v.err)
                /\ UNCHANGED <<acHttp, lookups, look>>
           [] v.outcome = "lookup" ->
                /\ look' = v.look
                /\ acHttp' = "lookup"
                /\ lookups' = lookups + 1
                /\ pc' = "lookup"
                /\ UNCHANGED <<err, panicking>>
    /\ UNCHANGED <<m, event>>
    /\ UNCHANGED <<acRequest, done, finished, requests, conn, arrived, pending,
                   resp, decoder, idx, sent, closed, lastLookup, cancelled,
                   mainVars>>

\* Lines 201-228: resp and decoder are reassigned to the lookup response, its
\* body is decoded, the tags are taken out and the event is built.
LookupResponse ==
    /\ pc = "lookup"
    /\ \E r \in LookupResponses :
         LET x == extract(r)
             b == buildEvent(m, look, x.tags)
         IN /\ lastLookup' = r
            /\ resp' = IF r.failed THEN "nil" ELSE "lookup"
            /\ decoder' = IF r.failed THEN decoder ELSE "lookup"
            /\ CASE x.outcome = "panic" -> PanicFrom /\ event' = event
                 [] x.outcome = "error" ->
                      ReturnFrom("decode error") /\ event' = event
                 [] x.outcome = "ok" /\ b.outcome = "panic" ->
                      PanicFrom /\ event' = event
                 [] x.outcome = "ok" /\ b.outcome = "ok" ->
                      /\ event' = b.event
                      /\ pc' = "send"
                      /\ UNCHANGED <<err, panicking>>
    /\ UNCHANGED <<m, look>>
    /\ UNCHANGED <<acHttp, acRequest, done, finished, requests, conn, arrived,
                   pending, idx, lookups, sent, closed, cancelled, mainVars>>

\* variant of Send that goes round the loop without waiting for the send
SendDetached ==
    /\ pc = "send"
    /\ pc' = "more"
    /\ m' = NoData /\ look' = NoLookup /\ event' = NoEvent
    /\ lastLookup' = NoResponse
    /\ UNCHANGED <<acHttp, acRequest, done, err, finished, requests, conn,
                   arrived, pending, resp, decoder, idx, lookups, sent, closed,
                   cancelled, panicking, mainVars>>

\* variant of Send that drops the error of a failed send and goes on with the
\* next value
SendIgnoresError ==
    /\ pc = "send"
    /\ \E ok \in BOOLEAN :
         sent' = IF ok THEN Append(sent, [req |-> requests, idx |-> idx])
                 ELSE sent
    /\ pc' = "more"
    /\ m' = NoData /\ look' = NoLookup /\ event' = NoEvent
    /\ lastLookup' = NoResponse
    /\ UNCHANGED <<acHttp, acRequest, done, err, finished, requests, conn,
                   arrived, pending, resp, decoder, idx, lookups, closed,
                   cancelled, panicking, mainVars>>

\* Lines 231-234: ac.redis.SendVersionQueue(event, ...), then the next turn of
\* the loop.
Send ==
    /\ pc = "send"
    /\ \E ok \in BOOLEAN :
         IF ok
         THEN /\ sent' = Append(sent, [req |-> requests, idx |-> idx])
              /\ pc' = "more"
              /\ m' = NoData /\ look' = NoLookup /\ event' = NoEvent
              /\ lastLookup' = NoResponse
              /\ UNCHANGED <<err, panicking>>
         ELSE /\ ReturnFrom("redis error")
              /\ UNCHANGED <<sent, m, look, event, lastLookup>>
    /\ UNCHANGED <<acHttp, acRequest, done, finished, requests, conn, arrived,
                   pending, resp, decoder, idx, lookups, closed, cancelled,
                   mainVars>>

\* variant of Report whose goroutine ends without closing the body of a
\* rejected response
ReportLeaks ==
    /\ pc = "report"
    /\ finished' = Append(finished, err)
    /\ done' = TRUE
    /\ pc' = "done"
    /\ UNCHANGED <<acHttp, acRequest, err, requests, conn, arrived, pending, resp,
                   decoder, idx, m, look, lookups, event, sent, closed,
                   lastLookup, cancelled, panicking, mainVars>>

\* variant of Report that does not set done: the loop goes on after the send
ReportKeepsGoing ==
    /\ pc = "report"
    /\ finished' = Append(finished, err)
    /\ closed' = IF conn = "rejected" THEN closed \cup {"stream"} ELSE closed
    /\ pc' = "do"
    /\ UNCHANGED <<acHttp, acRequest, done, err, requests, conn, arrived,
                   pending, resp, decoder, idx, m, look, lookups, event, sent,
                   lastLookup, cancelled, panicking, mainVars>>

\* Lines 121-125: finished <- err; done = true; the goroutine returns and the
\* deferred close of a rejected response's body (lines 113-115) runs.
Report ==
    /\ pc = "report"
    /\ finished' = Append(finished, err)
    /\ done' = TRUE
    /\ closed' = IF conn = "rejected" THEN closed \cup {"stream"} ELSE closed
    /\ pc' = "done"
    /\ UNCHANGED <<acHttp, acRequest, err, requests, conn, arrived, pending, resp,
                   decoder, idx, m, look, lookups, event, sent, lastLookup,
                   cancelled, panicking, mainVars>>

NextClient ==
    \/ Connect \/ Cancel \/ DoRequest \/ DoResponse \/ StreamArrive
    \/ PeerClose \/ StreamBreak \/ ReadValue \/ Classify \/ LookupResponse
    \/ Send \/ Deferred \/ Report

\* ------------------------------------------------ main (prototype loop)
\* Lines 45-63: the two addresses must split into host and port, or the
\* process exits with status 1.
mainStart ==
    /\ supPc = "idle" /\ pc = "idle"
    /\ \E icingaOk \in BOOLEAN, redisAddrOk \in BOOLEAN :
         IF icingaOk /\ redisAddrOk
         THEN supPc' = "dial" /\ exitCode' = exitCode /\ fatal' = fatal
         ELSE /\ supPc' = "exited" /\ exitCode' = 1
              /\ fatal' = IF ~icingaOk THEN "invalid icinga_server"
                          ELSE "invalid redis_server"
    /\ UNCHANGED <<sigs, c, wpc, hErr, spawned, mainReqs, reqState, mainSent,
                   redisOpen, sentAfterClose, clientVars>>

\* Lines 92-96: FlapjackDial; a failure to connect to redis exits with 1.
FlapjackDial ==
    /\ supPc = "dial"
    /\ \E ok \in BOOLEAN :
         IF ok
         THEN /\ supPc' = "loop" /\ redisOpen' = TRUE
              /\ exitCode' = exitCode /\ fatal' = fatal
         ELSE /\ supPc' = "exited" /\ exitCode' = 1 /\ redisOpen' = redisOpen
              /\ fatal' = "Couldn't establish Redis connection"
    /\ UNCHANGED <<sigs, c, wpc, hErr, spawned, mainReqs, reqState, mainSent,
                   sentAfterClose, clientVars>>

\* The process is running (a goroutine of an exited process does nothing).
Alive == supPc \notin {"idle", "exited"}

\* signal.Notify(sigs, ...), line 81: a signal is buffered, or dropped when
\* the buffer (capacity 1) is full.
Signal ==
    /\ Alive
    /\ sigs = 0
    /\ sigs' = 1
    /\ UNCHANGED <<supPc, c, wpc, hErr, spawned, mainReqs, reqState, mainSent,
                   redisOpen, sentAfterClose, exitCode, fatal, clientVars>>

\* Lines 103-128: for done == false { go func() {...}()
Spawn ==
    /\ supPc = "loop"
    /\ spawned < MaxSpawn
    /\ spawned' = spawned + 1
    /\ wpc' = [wpc EXCEPT ![spawned + 1] = "do"]
    /\ supPc' = "select"
    /\ UNCHANGED <<sigs, c, hErr, mainReqs, reqState, mainSent, redisOpen,
                   sentAfterClose, exitCode, fatal, clientVars>>

\* tr.CancelRequest(req), line 133: aborts req if it is in flight
CancelRequest(st) == IF st \in {"inflight", "reading", "eof"} THEN "aborted"
                     ELSE st

\* Lines 131-134: case <-sigs
SelectSignal ==
    /\ supPc = "select"
    /\ sigs > 0
    /\ sigs' = sigs - 1
    /\ reqState' = CancelRequest(reqState)
    /\ supPc' = "close"
    /\ UNCHANGED <<c, wpc, hErr, spawned, mainReqs, mainSent, redisOpen,
                   sentAfterClose, exitCode, fatal, clientVars>>

\* Lines 135-137: case err := <-c, and round the loop
SelectFinished ==
    /\ supPc = "select"
    /\ c # <<>>
    /\ c' = Tail(c)
    /\ supPc' = "loop"
    /\ UNCHANGED <<sigs, wpc, hErr, spawned, mainReqs, reqState, mainSent,
                   redisOpen, sentAfterClose, exitCode, fatal, clientVars>>

\* Lines 141-143: transport.Close() and main returns, which ends the process
\* whatever the worker is doing.
CloseAndExit ==
    /\ supPc = "close"
    /\ redisOpen' = FALSE
    /\ supPc' = "closed"
    /\ UNCHANGED <<sigs, c, wpc, hErr, spawned, mainReqs, reqState, mainSent,
                   sentAfterClose, exitCode, fatal, clientVars>>

mainReturn ==
    /\ supPc = "closed"
    /\ supPc' = "exited" /\ exitCode' = 0 /\ fatal' = fatal
    /\ UNCHANGED <<sigs, c, wpc, hErr, spawned, mainReqs, reqState, mainSent,
                   redisOpen, sentAfterClose, clientVars>>

\* Line 106: client.Do(req), the request goes out
WorkerDo(w) ==
    /\ Alive /\ wpc[w] = "do"
    /\ mainReqs' = mainReqs + 1
    /\ reqState' = "inflight"
    /\ wpc' = [wpc EXCEPT ![w] = "await"]
    /\ UNCHANGED <<supPc, sigs, c, hErr, spawned, mainSent, redisOpen,
                   sentAfterClose, exitCode, fatal, clientVars>>

\* Lines 106-108: client.Do returns
WorkerResponse(w) ==
    /\ Alive /\ wpc[w] = "await"
    /\ \E ok \in BOOLEAN :
         /\ reqState = "aborted" => ~ok
         /\ IF ok
            THEN /\ reqState' = "reading"
                 /\ wpc' = [wpc EXCEPT ![w] = "read"]
                 /\ hErr' = [hErr EXCEPT ![w] = ""]
            ELSE /\ reqState' = "none"
                 /\ wpc' = [wpc EXCEPT ![w] = "chan"]
                 /\ hErr' = [hErr EXCEPT ![w] = "request failed"]
    /\ UNCHANGED <<supPc, sigs, c, spawned, mainReqs, mainSent, redisOpen,
                   sentAfterClose, exitCode, fatal, clientVars>>

\* The peer ends the response body, or the connection breaks.
BodyEnds ==
    /\ Alive /\ reqState = "reading"
    /\ \E st \in {"eof", "broken"} : reqState' = st
    /\ UNCHANGED <<supPc, sigs, c, wpc, hErr, spawned, mainReqs, mainSent,
                   redisOpen, sentAfterClose, exitCode, fatal, clientVars>>

\* Lines 110-114: ioutil.ReadAll(resp.Body) returns when the body has ended;
\* on an error e it is printed and nothing is sent.
WorkerReadAll(w) ==
    /\ Alive /\ wpc[w] = "read"
    /\ reqState \in {"eof", "broken", "aborted"}
    /\ wpc' = [wpc EXCEPT ![w] = IF reqState = "eof" THEN "send" ELSE "chan"]
    /\ reqState' = "none"
    /\ UNCHANGED <<supPc, sigs, c, hErr, spawned, mainReqs, mainSent,
                   redisOpen, sentAfterClose, exitCode, fatal, clientVars>>

\* Lines 119-122: transport.Send(event), its result ignored
WorkerSend(w) ==
    /\ Alive /\ wpc[w] = "send"
    /\ mainSent' = mainSent + 1
    /\ sentAfterClose' = (sentAfterClose \/ ~redisOpen)
    /\ wpc' = [wpc EXCEPT ![w] = "chan"]
    /\ UNCHANGED <<supPc, sigs, c, hErr, spawned, mainReqs, reqState,
                   redisOpen, exitCode, fatal, clientVars>>

\* Line 127: c <- h_err on the channel of capacity 1, then the goroutine ends
ChanCap == 1

WorkerFinish(w) ==
    /\ Alive /\ wpc[w] = "chan"
    /\ Len(c) < ChanCap
    /\ c' = Append(c, hErr[w])
    /\ wpc' = [wpc EXCEPT ![w] = "exit"]
    /\ UNCHANGED <<supPc, sigs, hErr, spawned, mainReqs, reqState, mainSent,
                   redisOpen, sentAfterClose, exitCode, fatal, clientVars>>

Worker == \E w \in 1..MaxSpawn :
    WorkerDo(w) \/ WorkerResponse(w) \/ WorkerReadAll(w) \/ WorkerSend(w)
    \/ WorkerFinish(w)

NextMain ==
    \/ mainStart \/ FlapjackDial \/ Signal \/ Spawn \/ SelectSignal
    \/ SelectFinished \/ CloseAndExit \/ mainReturn \/ BodyEnds \/ Worker

Next == NextClient \/ NextMain

Spec == Init /\ [][Next]_vars

\* The goroutines keep running: a step that needs nothing from the network
\* or from the peer is eventually taken.
FairSpec ==
    /\ Spec
    /\ WF_vars(DoRequest \/ ReadValue \/ Classify \/ Deferred)
    /\ WF_vars(Spawn \/ SelectFinished \/ SelectSignal \/ CloseAndExit
                \/ mainReturn)
    /\ \A w \in 1..MaxSpawn :
         WF_vars(WorkerDo(w) \/ WorkerReadAll(w) \/ WorkerSend(w)
                 \/ WorkerFinish(w))


\* ------------------------------------------------------------- claims

\* C1: after an event has been enriched and dispatched, the next raw value
\* is pulled from the same open stream response: whenever the worker is at the
\* head of the read loop, the decoder it asks for the next value reads the
\* stream response, and so does resp, the body closed at the end.
C1_NextValueFromStream ==
    pc = "more" => (decoder = "stream" /\ resp = "stream")

\* C2: within one session events are sent in arrival order, and every value
\* read so far has had its lookup and its send completed by the time the
\* worker is back at the read: no second event is ever in flight.
SentInSession == { i \in DOMAIN sent : sent[i].req = requests }

C2_Sequential ==
    /\ \A i, j \in DOMAIN sent :
         i < j => \/ sent[i].req < sent[j].req
                  \/ sent[i].req = sent[j].req /\ sent[i].idx < sent[j].idx
    /\ pc = "more" =>
         /\ m = NoData /\ event = NoEvent
         /\ lookups = idx
         /\ Cardinality(SentInSession) = idx
    /\ pc \in {"classify", "lookup", "send"} =>
         Cardinality(SentInSession) = idx - 1

C2_Witness ==
    pc = "more" /\ Len(sent) = 2 /\ idx = 1

\* C3: once Cancel has aborted the stream request (in particular while the
\* worker is blocked waiting for the next stream value) the worker of Connect
\* issues no further stream request, and once the supervisor loop of main has
\* received the signal it starts no further worker.
C3_NoRequestAfterCancel ==
    [][ /\ (cancelled /\ conn = "aborted") => requests' = requests
        /\ supPc \in {"close", "closed", "exited"} => spawned' = spawned ]_vars

\* C4: a call of Cancel, at any point after Connect has started, aborts the
\* stream request that is in flight or whose response is open.
C4_CancelAbortsStream ==
    [][ (~cancelled /\ cancelled' /\ conn \in {"inflight", "open"})
          => conn' = "aborted" ]_vars


C6_StageErrorsAreValues ==
    pc # "crashed"

\* C7: a recognized event's state code 0, 1, 2, 3 maps to ok, warning,
\* critical, unknown; with any other code processing returns the unknown-state
\* error, no state is defaulted, no lookup is made and nothing is sent.
StateTable == <<"ok", "warning", "critical", "unknown">>

Recognized(v) ==
    /\ v.json = "object" /\ v.type \in {"CheckResult", "StateChange"}
    /\ v.wrongType = {} /\ Required \subseteq v.has

C7_StateMapping ==
    /\ [](pc \in {"lookup", "send"} =>
            /\ m.state \in 0..3
            /\ look.state = StateTable[m.state + 1])
    /\ [](pc = "send" => event.State = StateTable[m.state + 1])
    /\ [][ (pc = "classify" /\ Recognized(m) /\ m.state \notin 0..3
              /\ pc' # pc)
           => (pc' = "defer" /\ err' = "Unknown state" /\ ~panicking'
                 /\ lookups' = lookups /\ sent' = sent) ]_vars

C7_Witness ==
    pc = "send" /\ m.state = 3 /\ event.State = "unknown"

\* C8: with the service field present the lookup goes to the services path
\* under the name host!service and the check is the service name; without it
\* the lookup goes to the hosts path under the host name and the check is the
\* host marker HOST.
C8_LookupAndCheck ==
    (pc \in {"lookup", "send"} /\ IsType(m, "host")) =>
        IF "service" \in m.has
        THEN /\ look.serviceType = "services"
             /\ look.name = m.host \o "!" \o m.service
             /\ look.varURL = "/v1/objects/services/" \o look.name
             /\ pc = "send" => event.Check = m.service
        ELSE /\ look.serviceType = "hosts"
             /\ look.name = m.host
             /\ look.varURL = "/v1/objects/hosts/" \o look.name
             /\ pc = "send" => event.Check = "HOST"

C8_Witness ==
    pc = "send" /\ "service" \in m.has /\ event.Check = "s1"
      /\ look.varURL = "/v1/objects/services/h1!s1"

\* C9: the CheckResult of host h1, service s1, timestamp 1000, state 2, output
\* "disk full", with a lookup response carrying tags ["prod"], is sent as
\* entity h1, check s1, time 1000, state critical, summary "disk full", tags
\* ["prod"].
ExampleRaw == Raw("object", "CheckResult", Fields, {}, 2, 10000)

ExampleLookup ==
    [failed |-> FALSE, status |-> 200,
     body |-> Envelope("object", "one", TRUE, TRUE, TRUE, <<"prod">>)]

C9_ExampleEvent ==
    (m = ExampleRaw /\ lastLookup = ExampleLookup) =>
        /\ ~panicking /\ pc = "send"
        /\ event.Entity = "h1" /\ event.Check = "s1" /\ event.Time = 1000
        /\ event.State = "critical" /\ event.Summary = "disk full"
        /\ event.Tags = <<"prod">>

\* C10: a lookup that fails, answers with a status other than 200, with an
\* empty results list or a malformed envelope ends enrichment with an error
\* value, and no event is sent for that stream event.
BadLookup(r) ==
    \/ r.failed
    \/ r.status # 200
    \/ r.body.json # "object"
    \/ r.body.results # "one"
    \/ ~r.body.attrs

C10_LookupErrorIsValue ==
    (lastLookup # NoResponse /\ BadLookup(lastLookup)) =>
        (pc = "defer" /\ ~panicking /\ err # "")

\* C11: a lookup response whose first result carries no vars.tags enriches
\* the event with an empty tag sequence, and the event goes to the send: for
\* a well-formed stream value the absence of tags is no failure (the only
\* error then left is the sink's).
NoTags(r) == ~BadLookup(r) /\ ~r.body.hasTags

C11_NoTagsIsEmptyTags ==
    (lastLookup # NoResponse /\ NoTags(lastLookup) /\ Recognized(m)) =>
        /\ ~panicking
        /\ pc = "send" => event.Tags = <<>>
        /\ pc = "defer" => err = "redis error"

\* C12: a stream value that is not a JSON object, or one of a recognized kind
\* that lacks a required field or carries it with the wrong type, ends in an
\* error value: the worker does not panic on it and it never reaches the send.
MalformedValue(v) ==
    \/ v.json = "array"
    \/ /\ v.json = "object" /\ v.type \in {"CheckResult", "StateChange"}
       /\ (v.wrongType # {} \/ ~(Required \subseteq v.has))

C12_MalformedIsErrorValue ==
    (m # NoData /\ MalformedValue(m)) => (~panicking /\ pc # "send")

\* C13: when the stream request is answered with a status other than 200, no
\* value of that response is read, looked up or sent; the error made of the
\* status and the body is what goes to finished, and by then the body of the
\* response has been closed.
C13_RejectedStream ==
    /\ conn = "rejected" =>
         /\ pc \in {"report", "done"}
         /\ err = "API HTTP request failed"
         /\ idx = 0 /\ lookups = 0 /\ SentInSession = {}
    /\ (conn = "rejected" /\ pc = "done") =>
         /\ finished = <<"API HTTP request failed">>
         /\ "stream" \in closed

C13_Witness ==
    /\ conn = "rejected" /\ pc = "done"
    /\ finished = <<"API HTTP request failed">>
    /\ "stream" \in closed

\* C14: a stream value (a JSON object) whose type is neither CheckResult nor
\* StateChange ends processResponse with the unknown-type error: no lookup is
\* issued and nothing is sent for it, and once that error is returned nothing
\* more of that stream response is looked up or sent.
UnknownKind(v) ==
    v.json = "object" /\ v.type \notin {"CheckResult", "StateChange"}

C14_UnknownKind ==
    /\ [][(pc = "classify" /\ UnknownKind(m) /\ pc' # pc) =>
            /\ pc' = "defer" /\ err' = "Unknown type" /\ ~panicking'
            /\ lookups' = lookups /\ sent' = sent]_vars
    /\ [][err = "Unknown type" =>
            (sent' = sent /\ lookups' = lookups /\ requests' = requests)]_vars

C14_Witness ==
    /\ pc = "done" /\ finished = <<"Unknown type">>
    /\ arrived = 2 /\ idx = 1 /\ sent = <<>> /\ lookups = 0

\* C15: when reading the stream fails, processResponse returns an error (so
\* that it reaches finished): a read error met while the worker waits for the
\* next value of the stream makes the return value non-nil.
C15_StreamFailureReported ==
    [][(pc = "more" /\ decoder = "stream" /\ conn = "broken" /\ pc' # pc)
         => err' # ""]_vars

\* C16: each value read from the stream leads to at most one send; a send
\* that fails ends processResponse with the sink's error, which goes to
\* finished, and nothing is sent again after it.
C16_AtMostOneSend ==
    /\ [](\A i, j \in DOMAIN sent : sent[i] = sent[j] => i = j)
    /\ [](Cardinality(SentInSession) <= idx)
    /\ [][(pc = "send" /\ pc' # pc /\ sent' = sent) =>
            (pc' = "defer" /\ err' = "redis error" /\ ~panicking')]_vars
    /\ [][err = "redis error" => sent' = sent]_vars
    /\ [](pc = "done" /\ err = "redis error" =>
            finished = <<"redis error">>)

C16_Witness ==
    /\ pc = "done" /\ finished = <<"redis error">>
    /\ idx = 1 /\ lookups = 1 /\ sent = <<>>

\* C17: the process ends with a non-zero status only for an error of the
\* start-up configuration, reported with its message before any stream
\* request is made; no failure to open the stream, no read error and no
\* error on one event ends the process.
NonZeroExit == exitCode > 0 \/ pc = "crashed"

C17_FatalOnlyForConfig ==
    NonZeroExit =>
        /\ fatal # ""
        /\ spawned = 0 /\ mainReqs = 0 /\ requests = 0

\* C18: no event is sent to the sink once the sink connection has been
\* closed: whatever the interleaving of the signal with the running worker,
\* transport.Close() comes after the last transport.Send.
C18_NoSendAfterClose == ~sentAfterClose

\* C19: no worker of the supervisor loop blocks for ever on its send to the
\* completion channel: whenever a worker stands at c <- h_err the buffer of c
\* has room (at most one worker has not yet sent), and the send of every
\* worker that has come to it completes, the worker in flight when the
\* signal came included.
Unfinished == { w \in 1..MaxSpawn : wpc[w] \notin {"none", "exit"} }

SendNeverBlocks ==
    /\ \A w \in 1..MaxSpawn : wpc[w] = "chan" => Len(c) < ChanCap
    /\ Cardinality(Unfinished) <= 1

C19_SendCompletes ==
    /\ []SendNeverBlocks
    /\ \A w \in 1..MaxSpawn : (wpc[w] = "chan") ~> (wpc[w] = "exit")

\* C20: for one call of Connect the worker sends at most one error on
\* finished, and once it has sent it the worker has ended: it issues no
\* further stream request, reads no further value, looks nothing up and sends
\* nothing.
C20_OneErrorThenStop ==
    /\ [](Len(finished) <= 1)
    /\ [](finished # <<>> <=> done)
    /\ [](done => pc = "done")
    /\ [][finished # <<>> =>
            /\ requests' = requests /\ idx' = idx
            /\ lookups' = lookups /\ sent' = sent
            /\ finished' = finished]_vars

C20_Witness ==
    /\ pc = "done" /\ Len(finished) = 1 /\ requests = 2 /\ Len(sent) = 1
    /\ arrived > idx

====
